---------------------------- MODULE Spec2Model ----------------------------
(***************************************************************************)
(* Model of scripts/extract_pdf.py: the parallel PDF extractor.            *)
(*                                                                         *)
(* main() discovers the *.pdf files under PDF_DIR, submits one             *)
(* process_pdf task per file to a ProcessPoolExecutor, merges the results  *)
(* as the futures complete and writes three JSON artifacts.                *)
(* process_pdf() repairs and opens one document, walks its pages (native   *)
(* extraction, pdfplumber fallback, OCR, tables) and chunks every page's   *)
(* text with a sliding window of sentences.                                *)
(*                                                                         *)
(* The external libraries (pikepdf, fitz, pdfplumber, pytesseract,         *)
(* camelot, spaCy) are the environment: what each of them does on a given  *)
(* document or page (return or raise) is fixed by the corpus, so that the  *)
(* extractors are deterministic functions of the input files.              *)
(*                                                                         *)
(* A path under PDF_DIR is <<b, k>>: the k-th repaired copy               *)
(* ("<stem>.fixed. ... .fixed.pdf", k times ".fixed") of input document b. *)
(* A text is a sequence of spans: a positive number is a sentence, 0 is a  *)
(* span that is empty once stripped.                                       *)
(***************************************************************************)
EXTENDS Integers, Sequences, FiniteSets, TLC

\* ------------------------------------------------------------- bounds
NumDocs  == 2      \* documents in the input directory (concurrency corpora)
MaxPages == 2      \* pages of the document of the page corpora
MaxSents == 8      \* sentences of the page of the sentence corpora
MaxRuns  == 2      \* invocations of main() in RerunSpec

\* -------------------------------------------------- program constants
WINDOW  == 5
OVERLAP == 2
STEP_gap == WINDOW + OVERLAP      \* a stride longer than the window
STEP    == WINDOW - OVERLAP
max_workers == 4

Min(a, b) == IF a <= b THEN a ELSE b

\* --------------------------------------------------------- the corpus
\* What the libraries do on one page.
\*   prim    page.get_text(): "ok" or "raises"
\*   text    the native text
\*   imgs    page.get_images(): per image, whether Image.open /
\*           image_to_string / save succeed ("ok") or raise ("fail")
\*   cam     camelot.read_pdf: "ok" or "raises";  tabs  its tables
\*   fb      pdfplumber open / pages[n] / extract_text: "ok" or "raises"
\*   fbtext  pdfplumber's text;  fbtab / fbtabs  pg.extract_tables()
\*   fbimgs  pg.images, as imgs
\*   seg     nlp(text): "ok" or "raises" (text longer than nlp.max_length)
Page(prim, text, imgs, cam, tabs, fb, fbtext, fbtab, fbtabs, fbimgs, seg) ==
    [prim |-> prim, text |-> text, imgs |-> imgs, cam |-> cam, tabs |-> tabs,
     fb |-> fb, fbtext |-> fbtext, fbtab |-> fbtab, fbtabs |-> fbtabs,
     fbimgs |-> fbimgs, seg |-> seg]

K_text(n) == Page("ok", [i \in 1..n |-> i], <<>>, "ok", <<>>,
                  "ok", [i \in 1..n |-> i], "ok", <<>>, <<>>, "ok")
K_tables  == Page("ok", <<1, 2>>, <<"ok">>, "ok", <<"t1", "t2">>,
                  "ok", <<1, 2>>, "ok", <<"t1">>, <<>>, "ok")
K_ocrfail == Page("ok", <<1>>, <<"ok", "fail">>, "ok", <<"t1">>,
                  "ok", <<1>>, "ok", <<>>, <<>>, "ok")
K_camfail == Page("ok", <<1, 2, 3, 4>>, <<>>, "raises", <<>>,
                  "ok", <<1>>, "ok", <<>>, <<>>, "ok")
K_fallback == Page("raises", <<>>, <<>>, "ok", <<>>,
                  "ok", <<1, 2, 3, 4>>, "ok", <<"t1">>, <<"ok">>, "ok")
K_bothfail == Page("raises", <<>>, <<>>, "ok", <<>>,
                  "raises", <<>>, "ok", <<>>, <<>>, "ok")
K_fbocrfail == Page("raises", <<>>, <<>>, "ok", <<>>,
                  "ok", <<1, 2>>, "ok", <<>>, <<"fail">>, "ok")
K_fbtabfail == Page("raises", <<>>, <<>>, "ok", <<>>,
                  "ok", <<1, 2>>, "raises", <<>>, <<>>, "ok")
K_segraise == Page("ok", <<1>>, <<>>, "ok", <<>>,
                  "ok", <<1>>, "ok", <<>>, <<>>, "raises")
K_blank   == Page("ok", <<0>>, <<>>, "ok", <<"t1">>,
                  "ok", <<0>>, "ok", <<>>, <<>>, "ok")

PageKinds == {K_text(4), K_tables, K_ocrfail, K_camfail, K_fallback,
              K_bothfail, K_fbocrfail, K_fbtabfail, K_segraise, K_blank}

\* What the libraries do on one document.
\*   stem    the file's stem (documents in different sub-directories of
\*           PDF_DIR may share it)
\*   repair  pikepdf: "raises" (Pdf.open or save raises, nothing usable is
\*           written), "unopenable" (the copy is saved, fitz.open of the
\*           copy raises), "ok"
\*   opens   whether fitz.open of the file itself succeeds
\*   pages   the pages
Doc(stem, repair, opens, pages) ==
    [stem |-> stem, repair |-> repair, opens |-> opens, pages |-> pages]

D_ok(s)         == Doc(s, "ok", TRUE, <<K_text(4)>>)
D_unopenable(s) == Doc(s, "raises", FALSE, <<K_text(1)>>)
D_lateraise(s)  == Doc(s, "unopenable", TRUE, <<K_tables, K_segraise>>)
D_skip(s)       == Doc(s, "ok", FALSE, <<K_fallback, K_bothfail>>)

DocKinds(s) == {D_ok(s), D_unopenable(s), D_lateraise(s), D_skip(s)}

Caps(r, p, o, t) ==
    [HAS_REPAIR |-> r, HAS_PLUMBER |-> p, HAS_OCR |-> o, HAS_TABLES |-> t]

AllCaps == [HAS_REPAIR : BOOLEAN, HAS_PLUMBER : BOOLEAN,
            HAS_OCR : BOOLEAN, HAS_TABLES : BOOLEAN]

RECURSIVE SeqsUpTo(_, _)
SeqsUpTo(S, n) ==
    IF n = 0 THEN {<<>>}
    ELSE LET shorter == SeqsUpTo(S, n - 1)
         IN  shorter \cup {Append(q, x) : q \in shorter, x \in S}

\* Stems of the documents of a directory: all different, or the first two
\* in two sub-directories under one stem.
Stems == {[b \in 1..NumDocs |-> b],
          [b \in 1..NumDocs |-> IF b = 2 THEN 1 ELSE b]}

\* Concurrency corpora: NumDocs documents of the kinds above.
ManyDocs ==
    UNION {{c \in [1..NumDocs -> UNION {DocKinds(s) : s \in 1..NumDocs}] :
               \A b \in 1..NumDocs : c[b].stem = st[b]} : st \in Stems}
ManyCaps == {Caps(TRUE, TRUE, TRUE, TRUE), Caps(FALSE, TRUE, TRUE, TRUE),
             Caps(FALSE, FALSE, FALSE, FALSE)}

\* Page corpora: one document, every sequence of page kinds.
OneDoc == {<<Doc(1, "ok", TRUE, ps)>> : ps \in SeqsUpTo(PageKinds, MaxPages)}

\* Sentence corpora: one document of one page of n sentences.
SentDocs == {<<Doc(1, "ok", TRUE, <<K_text(n)>>)>> : n \in 0..MaxSents}

\* Rerun corpora: one document, or two documents of different stems.
RerunDocs == {<<D_ok(1)>>, <<D_skip(1)>>, <<D_lateraise(1)>>, <<D_ok(1), D_ok(2)>>}

VARIABLES
    corpus,             \* the input documents: what the libraries do on them
    caps,               \* HAS_REPAIR, HAS_PLUMBER, HAS_OCR, HAS_TABLES
    files,              \* the *.pdf paths that exist under PDF_DIR
    run,                \* the number of this invocation of main()
    phase,              \* main(): "start", "pool", "done", "aborted"
    pdfs,               \* main(): the discovered paths
    task,               \* per discovered path, its process_pdf task
    all_chunks,         \* main(): accumulator
    all_skipped_pages,  \* main(): accumulator
    skipped_pdfs,       \* main(): accumulator
    merge_order,        \* the paths in the order as_completed yielded them
    artifacts,          \* OUT_DIR: file name -> content
    runs_out            \* the chunk list each finished invocation wrote

vars == <<corpus, caps, files, run, phase, pdfs, task, all_chunks,
          all_skipped_pages, skipped_pdfs, merge_order, artifacts, runs_out>>

\* ------------------------------------------------------------- paths
Fixed(p) == <<p[1], p[2] + 1>>                \* pdf_path.with_suffix(".fixed.pdf")
Name(p)  == <<corpus[p[1]].stem, p[2]>>       \* pdf_path.name
\* The content of a path: an input document, or a repaired copy of one: a
\* file with the same pages, well-formed unless it is the copy that
\* fitz.open refused when it was written.
Kind(p) ==
    IF p[2] = 0 THEN corpus[p[1]]
    ELSE IF corpus[p[1]].repair = "unopenable"
    THEN [corpus[p[1]] EXCEPT !.opens = FALSE]
    ELSE [corpus[p[1]] EXCEPT !.repair = "ok", !.opens = TRUE]
PageCount(p) == Len(Kind(p).pages)            \* doc.page_count

\* ------------------------------------------------------ process_pdf
\* A task: the state of one process_pdf call in its worker process.
\*   st       "queued" (submitted), "open" (after step 1), "page" (top of
\*            the page loop), "fallback" (in the except branch of a page),
\*            "chunk" (at step 4 of a page), "returned", "raised"
\*   doc      the fitz document: "none", "fixed" (the repaired copy) or
\*            "orig"
\*   page_no  the loop variable;  e  the primary attempt's error
\*   text, tables, chunks, skipped_pages   the locals of that name
\*   hist     per page begun, the states the page went through
\*   sents    per page begun, the sentence list of step 4 (<<>> before it)
\*   err      the exception that left process_pdf
\*   uuids    the number of uuid4() calls made
\*   wrote    the files the call has written: <<"pdf", path>> under
\*            PDF_DIR, <<"img", stem, page, name>> under IMG_DIR
\*   read     the reads the call has made of the files under PDF_DIR:
\*            the library, the path, the page (0: the document as a whole)
NewTask ==
    [st |-> "queued", doc |-> "none", page_no |-> 0, e |-> "", text |-> <<>>,
     tables |-> <<>>, chunks |-> <<>>, skipped_pages |-> <<>>, hist |-> <<>>,
     sents |-> <<>>, err |-> "", uuids |-> 0, wrote |-> {}, read |-> {}]

Running == {p \in pdfs : task[p].st \in {"open", "page", "fallback", "chunk"}}
\* futures = {exe.submit(process_pdf, p): p for p in pdfs}: the tasks are
\* submitted in the order of the list pdfs, taken here as the path order.
SubmittedBefore(q, p) == q[1] < p[1] \/ (q[1] = p[1] /\ q[2] < p[2])
\* as_completed yields a future once it is done, whatever was submitted
\* before it.
Finished_inorder(p) ==
    /\ task[p].st \in {"returned", "raised"}
    /\ \A q \in pdfs : SubmittedBefore(q, p) => q \in {merge_order[i] : i \in 1..Len(merge_order)}
Finished(p) == task[p].st \in {"returned", "raised"}

\* uuid.uuid4(): a value no other call returns.
Uuid4(p, t) == <<run, p, t.uuids + 1>>

\* The OCR loops: one image that raises ends the loop with its exception;
\* each image read adds "\n" + image_to_string(im) to the text.
OcrFails(imgs) == \E j \in 1..Len(imgs) : imgs[j] = "fail"
OcrText(imgs)  == [j \in 1..Len(imgs) |-> 100 + j]

\* The images an OCR loop saves: those before the first one that raises.
Saved(imgs) == {j \in 1..Len(imgs) : \A i \in 1..j : imgs[i] = "ok"}

\* page_img_dir / f"img_{xref}.png", page_img_dir / f"plumb_{object_id}.png"
\* with page_img_dir = IMG_DIR / pdf_path.stem / f"page_{page_no+1}"; the
\* j-th image of a page has xref (object_id) j.
ImagePath(p, page, prefix, j) == <<"img", Name(p), page, <<prefix, j>>>>

Read(lib, path, page) == [lib |-> lib, path |-> path, page |-> page]

\* The file behind the fitz document of task t.
DocFile(p, t) == IF t.doc = "fixed" THEN Fixed(p) ELSE p

\* The last element of a page history replaced by the states in h.
Went(t, h) ==
    [t EXCEPT !.hist = SubSeq(t.hist, 1, Len(t.hist) - 1)
                           \o <<t.hist[Len(t.hist)] \o h>>]

\* skipped_pages.append(...); continue
SkipPage_norecord(p, t, errs) ==
    [Went(t, <<"Skipped">>) EXCEPT !.st = "page", !.page_no = t.page_no + 1]
SkipPage(p, t, errs) ==
    [Went(t, <<"Skipped">>) EXCEPT
        !.st = "page", !.page_no = t.page_no + 1,
        !.skipped_pages = Append(t.skipped_pages, <<Name(p), t.page_no + 1, errs>>)]

\* 1) Optional repair: the repaired copy is written next to the original.
RepairWrites(p) == caps.HAS_REPAIR /\ Kind(p).repair \in {"unopenable", "ok"}
RepairResult(p, t) ==
    [t EXCEPT !.st = "open",
              !.doc = IF caps.HAS_REPAIR /\ Kind(p).repair = "ok"
                      THEN "fixed" ELSE "none",
              !.wrote = IF RepairWrites(p) THEN {<<"pdf", Fixed(p)>>} ELSE {},
              !.read = (IF caps.HAS_REPAIR THEN {Read("pikepdf", p, 0)} ELSE {})
                       \cup (IF RepairWrites(p) THEN {Read("fitz", Fixed(p), 0)}
                             ELSE {})]

\* 2) Fallback open: fitz.open(str(pdf_path)), which may raise.
OpenResult_swallow(p, t) ==
    IF t.doc = "none" /\ ~Kind(p).opens
    THEN [t EXCEPT !.st = "returned"]
    ELSE [t EXCEPT !.st = "page", !.doc = IF t.doc = "none" THEN "orig" ELSE t.doc]
OpenResult(p, t) ==
    IF t.doc # "none" THEN [t EXCEPT !.st = "page"]
    ELSE IF Kind(p).opens
    THEN [t EXCEPT !.st = "page", !.doc = "orig",
                   !.read = t.read \cup {Read("fitz", p, 0)}]
    ELSE [t EXCEPT !.st = "raised", !.err = "e_open",
                   !.read = t.read \cup {Read("fitz", p, 0)}]

\* 3) One page, the try block: native text, OCR overlay, camelot tables.
PrimaryError_never(pg) == ""
PrimaryError(pg) ==
    IF pg.prim = "raises" THEN "e_primary"
    ELSE IF caps.HAS_OCR /\ OcrFails(pg.imgs) THEN "e_ocr"
    ELSE ""
PrimaryResult(p, t) ==
    LET pg == Kind(p).pages[t.page_no + 1]
        e  == PrimaryError(pg)
        n  == t.page_no + 1
        t0 == [t EXCEPT !.hist = Append(t.hist, <<"PrimaryAttempt">>),
                        !.sents = Append(t.sents, <<>>),
                        !.text = <<>>, !.tables = <<>>, !.e = "",
                        !.read = t.read \cup {Read("fitz", DocFile(p, t), n)}
                            \cup (IF e = "" /\ caps.HAS_TABLES
                                  THEN {Read("camelot", p, n)} ELSE {}),
                        !.wrote = t.wrote \cup
                            (IF pg.prim = "ok" /\ caps.HAS_OCR
                             THEN {ImagePath(p, n, "img", j) : j \in Saved(pg.imgs)}
                             ELSE {})]
    IN  IF e = ""
        THEN [Went(t0, <<"Done">>) EXCEPT
                 !.st = "chunk",
                 !.text = pg.text \o (IF caps.HAS_OCR THEN OcrText(pg.imgs) ELSE <<>>),
                 !.tables = IF caps.HAS_TABLES /\ pg.cam = "ok" THEN pg.tabs ELSE <<>>]
        ELSE IF caps.HAS_PLUMBER
        THEN [Went(t0, <<"FallbackAttempt">>) EXCEPT !.st = "fallback", !.e = e]
        ELSE SkipPage(p, t0, <<e>>)

\* 3) One page, the except branch: pdfplumber text, tables, images + OCR.
FallbackError(pg) ==
    IF pg.fb = "raises" THEN "e_fallback"
    ELSE IF caps.HAS_TABLES /\ pg.fbtab = "raises" THEN "e_fbtables"
    ELSE IF caps.HAS_OCR /\ OcrFails(pg.fbimgs) THEN "e_fbocr"
    ELSE ""
FallbackResult(p, t) ==
    LET pg == Kind(p).pages[t.page_no + 1]
        e2 == FallbackError(pg)
        n  == t.page_no + 1
        t0 == [t EXCEPT !.read = t.read \cup {Read("pdfplumber", p, n)},
                        !.wrote = t.wrote \cup
                            (IF e2 \in {"", "e_fbocr"} /\ caps.HAS_OCR
                             THEN {ImagePath(p, n, "plumb", j) : j \in Saved(pg.fbimgs)}
                             ELSE {})]
    IN  IF e2 = ""
        THEN [Went(t0, <<"Done">>) EXCEPT
                 !.st = "chunk",
                 !.text = pg.fbtext \o (IF caps.HAS_OCR THEN OcrText(pg.fbimgs) ELSE <<>>),
                 !.tables = t.tables \o (IF caps.HAS_TABLES THEN pg.fbtabs ELSE <<>>)]
        ELSE SkipPage(p, t0, <<t.e, e2>>)

\* 4) Sentence sliding window.
\* sents = [s.text.strip() for s in doc_nlp.sents if s.text.strip()]
Sentences(text) == SelectSeq(text, LAMBDA x : x # 0)

\* base: one dict per page, spread into every chunk of the page.
Base(p, t) ==
    [chunk_id |-> Uuid4(p, t), source |-> "pdf", doc_path |-> p,
     loc |-> [page |-> t.page_no + 1], tables |-> t.tables]

\* win = sents[i : i + WINDOW]
Window_short(sents, i) == SubSeq(sents, i + 1, Min(i + WINDOW - 1, Len(sents)))
Window(sents, i) == SubSeq(sents, i + 1, Min(i + WINDOW, Len(sents)))

\* for i in range(0, len(sents), STEP): chunks.append({...})
\* The chunk's text, " ".join(win), is kept as the sequence of its sentences.
RECURSIVE WindowChunks(_, _, _)
WindowChunks(base, sents, i) ==
    IF i >= Len(sents) THEN <<>>
    ELSE LET win == Window(sents, i)
         IN  <<[chunk_id |-> base.chunk_id, source |-> base.source,
                doc_path |-> base.doc_path, tables |-> base.tables,
                elem_type |-> "text",
                loc |-> [page |-> base.loc.page, start_sent |-> i + 1,
                         end_sent |-> i + Len(win)],
                text |-> win]>>
             \o WindowChunks(base, sents, i + STEP)

TextChunks_nochunk(base, sents, text) ==
    IF sents # <<>> THEN WindowChunks(base, sents, 0) ELSE <<>>
TextChunks(base, sents, text) ==
    IF sents # <<>> THEN WindowChunks(base, sents, 0)
    ELSE <<[chunk_id |-> base.chunk_id, source |-> base.source,
            doc_path |-> base.doc_path, tables |-> base.tables,
            loc |-> base.loc, elem_type |-> "text", text |-> text]>>

\* 5) for ti, tbl in enumerate(tables): chunks.append({...})
TableChunks_countdown(base, tables) ==
    [k \in 1..Len(tables) |->
        [chunk_id |-> base.chunk_id, source |-> base.source,
         doc_path |-> base.doc_path, tables |-> base.tables,
         loc |-> base.loc, elem_type |-> "table",
         table_no |-> Len(tables) - k, text |-> tables[k]]]
TableChunks(base, tables) ==
    [k \in 1..Len(tables) |->
        [chunk_id |-> base.chunk_id, source |-> base.source,
         doc_path |-> base.doc_path, tables |-> base.tables,
         loc |-> base.loc, elem_type |-> "table", table_no |-> k - 1,
         text |-> tables[k]]]

ChunkResult(p, t) ==
    LET pg == Kind(p).pages[t.page_no + 1]
        sents == Sentences(t.text)
        base == Base(p, t)
    IN  IF pg.seg = "raises"
        THEN [t EXCEPT !.st = "raised", !.err = "e_nlp"]
        ELSE [t EXCEPT
                 !.st = "page", !.page_no = t.page_no + 1,
                 !.uuids = t.uuids + 1,
                 !.sents = [t.sents EXCEPT ![Len(t.sents)] = sents],
                 !.chunks = t.chunks \o TextChunks(base, sents, t.text)
                                     \o TableChunks(base, t.tables)]

\* ------------------------------------------------------------- main
\* try: chunks, skipped_pages = fut.result(); all_chunks.extend(chunks)
MergedChunks_partial(t) == all_chunks \o t.chunks
MergedChunks_reset(t) == IF t.st = "returned" THEN all_chunks \o t.chunks ELSE <<>>
MergedChunks_backwards(t) ==
    IF t.st = "returned"
    THEN all_chunks \o [i \in 1..Len(t.chunks) |-> t.chunks[Len(t.chunks) + 1 - i]]
    ELSE all_chunks
MergedChunks_around(t) ==
    IF t.st = "returned" /\ t.chunks # <<>>
    THEN <<Head(t.chunks)>> \o all_chunks \o Tail(t.chunks)
    ELSE all_chunks
MergedChunks(t) == IF t.st = "returned" THEN all_chunks \o t.chunks ELSE all_chunks

\* all_skipped_pages.extend(skipped_pages)
MergedSkippedPages_partial(t) == all_skipped_pages \o t.skipped_pages
MergedSkippedPages(t) ==
    IF t.st = "returned" THEN all_skipped_pages \o t.skipped_pages
    ELSE all_skipped_pages

\* except Exception as e: skipped_pdfs.append((pdf.name, str(e)))
MergedSkippedPdfs_always(p, t) == Append(skipped_pdfs, <<Name(p), t.err>>)
MergedSkippedPdfs(p, t) ==
    IF t.st = "raised" THEN Append(skipped_pdfs, <<Name(p), t.err>>)
    ELSE skipped_pdfs

\* The try/except around fut.result() catches what the task raised: the
\* loop over as_completed goes on.
AfterResult_uncaught(t) == IF t.st = "raised" THEN "aborted" ELSE "pool"
AfterResult(t) == "pool"

\* The three write_text calls.
Written ==
    ("all_chunks.json" :> all_chunks) @@ ("skipped_pdfs.json" :> skipped_pdfs)
        @@ ("skipped_pages.json" :> all_skipped_pages)

ArtifactNames == {"all_chunks.json", "skipped_pdfs.json", "skipped_pages.json"}

Range(q) == {q[i] : i \in 1..Len(q)}

\* ----------------------------------------------------------- actions
InitWith(docs, cs) ==
    /\ corpus \in docs
    /\ caps \in cs
    /\ files = {<<b, 0>> : b \in DOMAIN corpus}
    /\ run = 1
    /\ phase = "start"
    /\ pdfs = {}
    /\ task = <<>>
    /\ all_chunks = <<>>
    /\ all_skipped_pages = <<>>
    /\ skipped_pdfs = <<>>
    /\ merge_order = <<>>
    /\ artifacts = <<>>
    /\ runs_out = <<>>

Init ==
    \/ InitWith(ManyDocs, ManyCaps)
    \/ InitWith(OneDoc, AllCaps)
    \/ InitWith(SentDocs, {Caps(FALSE, FALSE, FALSE, FALSE)})

\* main, step 0 and the submit loop: one task per discovered path.
Discover ==
    /\ phase = "start"
    /\ pdfs' = files
    /\ task' = [p \in files |-> NewTask]
    /\ all_chunks' = <<>>
    /\ all_skipped_pages' = <<>>
    /\ skipped_pdfs' = <<>>
    /\ merge_order' = <<>>
    /\ phase' = "pool"
    /\ UNCHANGED <<corpus, caps, files, run, artifacts, runs_out>>

TaskStep(p, t) ==
    /\ task' = [task EXCEPT ![p] = t]
    /\ UNCHANGED <<corpus, caps, run, phase, pdfs, all_chunks,
                   all_skipped_pages, skipped_pdfs, merge_order, artifacts,
                   runs_out>>

\* A free worker takes the task: process_pdf, step 1.
OptionalRepair(p) ==
    /\ phase = "pool"
    /\ task[p].st = "queued"
    /\ Cardinality(Running) < max_workers
    /\ files' = IF RepairWrites(p) THEN files \cup {Fixed(p)} ELSE files
    /\ TaskStep(p, RepairResult(p, task[p]))

\* process_pdf, step 2.
FallbackOpen(p) ==
    /\ phase = "pool"
    /\ task[p].st = "open"
    /\ TaskStep(p, OpenResult(p, task[p]))
    /\ UNCHANGED files

\* process_pdf, step 3, the try block of one page.
PrimaryAttempt(p) ==
    /\ phase = "pool"
    /\ task[p].st = "page"
    /\ task[p].page_no < PageCount(p)
    /\ TaskStep(p, PrimaryResult(p, task[p]))
    /\ UNCHANGED files

\* process_pdf, step 3, the except branch of one page.
FallbackAttempt(p) ==
    /\ phase = "pool"
    /\ task[p].st = "fallback"
    /\ TaskStep(p, FallbackResult(p, task[p]))
    /\ UNCHANGED files

\* process_pdf, steps 4 and 5 of one page.
ChunkPage(p) ==
    /\ phase = "pool"
    /\ task[p].st = "chunk"
    /\ TaskStep(p, ChunkResult(p, task[p]))
    /\ UNCHANGED files

\* process_pdf: the page loop is over, return chunks, skipped_pages.
Return(p) ==
    /\ phase = "pool"
    /\ task[p].st = "page"
    /\ task[p].page_no = PageCount(p)
    /\ TaskStep(p, [task[p] EXCEPT !.st = "returned"])
    /\ UNCHANGED files

\* main: as_completed yields a finished future; its result is merged.
Merge(p) ==
    /\ phase = "pool"
    /\ Finished(p)
    /\ p \notin Range(merge_order)
    /\ merge_order' = Append(merge_order, p)
    /\ all_chunks' = MergedChunks(task[p])
    /\ all_skipped_pages' = MergedSkippedPages(task[p])
    /\ skipped_pdfs' = MergedSkippedPdfs(p, task[p])
    /\ phase' = AfterResult(task[p])
    /\ UNCHANGED <<corpus, caps, files, run, pdfs, task, artifacts, runs_out>>

\* main, step 2: every future has been consumed, the outputs are written.
WriteOutputs ==
    /\ phase = "pool"
    /\ Range(merge_order) = pdfs
    /\ artifacts' = Written
    /\ runs_out' = Append(runs_out, all_chunks)
    /\ phase' = "done"
    /\ UNCHANGED <<corpus, caps, files, run, pdfs, task, all_chunks,
                   all_skipped_pages, skipped_pdfs, merge_order>>

\* The pipeline is invoked again on the same directory.
Rerun ==
    /\ phase = "done"
    /\ run < MaxRuns
    /\ run' = run + 1
    /\ phase' = "start"
    /\ pdfs' = {}
    /\ task' = <<>>
    /\ all_chunks' = <<>>
    /\ all_skipped_pages' = <<>>
    /\ skipped_pdfs' = <<>>
    /\ merge_order' = <<>>
    /\ UNCHANGED <<corpus, caps, files, artifacts, runs_out>>

Next ==
    \/ Discover
    \/ \E p \in pdfs : OptionalRepair(p)
    \/ \E p \in pdfs : FallbackOpen(p)
    \/ \E p \in pdfs : PrimaryAttempt(p)
    \/ \E p \in pdfs : FallbackAttempt(p)
    \/ \E p \in pdfs : ChunkPage(p)
    \/ \E p \in pdfs : Return(p)
    \/ \E p \in pdfs : Merge(p)
    \/ WriteOutputs

Spec == Init /\ [][Next]_vars

\* Every call of a task and of main returns or raises: no step that can be
\* taken is put off for ever.
FairSpec == Spec /\ WF_vars(Next)

RerunInit ==
    InitWith(RerunDocs, {Caps(TRUE, TRUE, TRUE, TRUE), Caps(FALSE, TRUE, TRUE, TRUE)})
RerunNext == Next \/ Rerun
RerunSpec == RerunInit /\ [][RerunNext]_vars

\* ------------------------------------------------- reading the outputs
Max(a, b) == IF a >= b THEN a ELSE b

RECURSIVE Flatten(_)
Flatten(qs) == IF qs = <<>> THEN <<>> ELSE Head(qs) \o Flatten(Tail(qs))

Returned(p) == task[p].st = "returned"
Raised(p)   == task[p].st = "raised"

\* The merged tasks that returned, and those that raised, in merge order.
ReturnedOrder == SelectSeq(merge_order, Returned)
RaisedOrder   == SelectSeq(merge_order, Raised)

\* What the tasks merged so far handed over, in merge order.
ChunksHandedOver ==
    Flatten([i \in 1..Len(ReturnedOrder) |-> task[ReturnedOrder[i]].chunks])
PageFailuresHandedOver ==
    Flatten([i \in 1..Len(ReturnedOrder) |-> task[ReturnedOrder[i]].skipped_pages])
DocFailuresCaptured ==
    [i \in 1..Len(RaisedOrder) |-> <<Name(RaisedOrder[i]), task[RaisedOrder[i]].err>>]

ChunkList    == artifacts["all_chunks.json"]
DocFailures  == artifacts["skipped_pdfs.json"]
PageFailures == artifacts["skipped_pages.json"]

\* The chunks of the chunk list that reference page n of document p.
ChunksOfPage(p, n) ==
    {i \in 1..Len(ChunkList) :
        ChunkList[i].doc_path = p /\ ChunkList[i].loc.page = n}
ChunksOfDoc(p) == {i \in 1..Len(ChunkList) : ChunkList[i].doc_path = p}

\* The per-page failure records of page n that the task of p handed over.
FailuresOfPage(p, n) ==
    IF Returned(p)
    THEN {i \in 1..Len(task[p].skipped_pages) : task[p].skipped_pages[i][2] = n}
    ELSE {}

AccountedFor(p) ==
    \A n \in 1..PageCount(p) :
        \/ ChunksOfPage(p, n) # {} /\ FailuresOfPage(p, n) = {}
        \/ ChunksOfPage(p, n) = {} /\ Cardinality(FailuresOfPage(p, n)) = 1

\* ------------------------------------------------------------- claims

\* C1, as stated: at the end of the run every page of every document that
\* process_pdf opened either contributes at least one chunk or appears
\* exactly once in the per-page failure list, never both, never neither.
C1_Original ==
    phase = "done" =>
        \A p \in pdfs : task[p].doc # "none" => AccountedFor(p)

\* C1, amended: at the end of the run the per-page failure list holds the
\* records of the tasks that returned and no others; every page of a
\* document whose task returned either contributes at least one chunk or
\* appears exactly once among its task's per-page failure records, never
\* both, never neither; a document whose task raised contributes no chunk.
C1_Theorem ==
    phase = "done" =>
        /\ PageFailures = PageFailuresHandedOver
        /\ \A p \in pdfs :
              /\ Returned(p) => AccountedFor(p)
              /\ Raised(p) => ChunksOfDoc(p) = {}

\* C1, witness: a run has ended with a returned document of which one page
\* is chunked and another is in the per-page failure list.
C1_Witness ==
    /\ phase = "done"
    /\ \E p \in pdfs :
          /\ Returned(p)
          /\ \E n, m \in 1..PageCount(p) :
                /\ ChunksOfPage(p, n) # {}
                /\ Cardinality(FailuresOfPage(p, m)) = 1
                /\ PageFailures # <<>>

\* C2, as stated: no two distinct chunks of the final chunk list carry the
\* same chunk_id.
C2_Original ==
    phase = "done" =>
        \A i, j \in 1..Len(ChunkList) :
            i # j => ChunkList[i].chunk_id # ChunkList[j].chunk_id

\* C3, as stated: when optical recognition fails for an image of a page
\* whose text extraction succeeded, the page still ends in Done: on the
\* primary path the fallback extractor does not run and the page is not
\* Skipped, on the fallback path the page is not Skipped, and no per-page
\* failure record names the page.
C3_Original ==
    \A p \in pdfs : \A n \in 1..Len(task[p].hist) :
        LET pg == Kind(p).pages[n]
            h  == Range(task[p].hist[n])
            recorded == \E i \in 1..Len(task[p].skipped_pages) :
                            task[p].skipped_pages[i][2] = n
        IN  /\ (caps.HAS_OCR /\ pg.prim = "ok" /\ OcrFails(pg.imgs)) =>
                   "FallbackAttempt" \notin h /\ "Skipped" \notin h /\ ~recorded
            /\ (caps.HAS_OCR /\ pg.prim = "raises" /\ pg.fb = "ok"
                   /\ pg.fbtab = "ok" /\ OcrFails(pg.fbimgs)) =>
                   "Skipped" \notin h /\ ~recorded

\* A document that the primary engine cannot open: the original does not
\* open and no repaired copy is opened in its place.
Unopenable(p) == ~Kind(p).opens /\ ~(caps.HAS_REPAIR /\ Kind(p).repair = "ok")

NoPageProcessed(p) ==
    /\ task[p].page_no = 0 /\ task[p].hist = <<>>
    /\ task[p].chunks = <<>> /\ task[p].skipped_pages = <<>>
    /\ ChunksOfDoc(p) = {}

OneDocFailure(p) ==
    /\ DocFailures = DocFailuresCaptured
    /\ Cardinality({i \in 1..Len(RaisedOrder) : RaisedOrder[i] = p}) = 1

\* C4, as stated: for a document that cannot be opened, exactly one
\* whole-document failure record is produced, none of its pages is
\* processed, and its task completes successfully (process_pdf returns).
C4_Original ==
    phase = "done" =>
        \A p \in pdfs :
            Unopenable(p) =>
                OneDocFailure(p) /\ NoPageProcessed(p) /\ Returned(p)

\* C4, amended: for a document that cannot be opened, none of its pages is
\* processed, process_pdf raises the open error out of the task, main
\* captures it from the future as exactly one whole-document failure
\* record, and the run still writes its three artifacts.
C4_Theorem ==
    phase = "done" =>
        \A p \in pdfs :
            Unopenable(p) =>
                /\ OneDocFailure(p) /\ NoPageProcessed(p)
                /\ Raised(p) /\ task[p].err = "e_open"
                /\ DOMAIN artifacts = ArtifactNames

\* C4, witness: a run has ended with a document that could not be opened
\* and another that was chunked.
C4_Witness ==
    /\ phase = "done"
    /\ \E p, q \in pdfs :
          Unopenable(p) /\ Raised(p) /\ Returned(q) /\ ChunksOfDoc(q) # {}

AllFailed == \A p \in pdfs : Raised(p)

\* C5: the run always completes and emits all three artifacts: main
\* eventually reaches the end, and there every task has finished and been
\* merged and the three artifacts are written; when every document failed
\* the chunk list is empty and the whole-document failure list holds one
\* record per discovered document.
C5_Theorem ==
    /\ <>(phase = "done")
    /\ [](phase = "done" =>
             /\ DOMAIN artifacts = ArtifactNames
             /\ \A p \in pdfs : Finished(p)
             /\ Range(merge_order) = pdfs /\ Len(merge_order) = Cardinality(pdfs)
             /\ ChunkList = all_chunks /\ DocFailures = skipped_pdfs
             /\ PageFailures = all_skipped_pages
             /\ AllFailed => /\ ChunkList = <<>>
                              /\ Len(DocFailures) = Cardinality(pdfs)
                              /\ DocFailures = DocFailuresCaptured)

\* C5, witness: a run over a non-empty directory has ended with every
\* document failed.
C5_Witness ==
    phase = "done" /\ pdfs # {} /\ AllFailed /\ ChunkList = <<>>
        /\ Len(DocFailures) = Cardinality(pdfs)

\* C6: task failures are isolated: whatever tasks raised and whenever they
\* were merged, the accumulators hold exactly what the merged tasks that
\* returned handed over, in merge order, and one whole-document failure
\* record per merged task that raised; so do the outputs.
C6_Theorem ==
    /\ phase \in {"pool", "done"} =>
          /\ all_chunks = ChunksHandedOver
          /\ all_skipped_pages = PageFailuresHandedOver
          /\ skipped_pdfs = DocFailuresCaptured
    /\ phase = "done" =>
          /\ ChunkList = ChunksHandedOver
          /\ PageFailures = PageFailuresHandedOver
          /\ DocFailures = DocFailuresCaptured
          /\ \A q \in pdfs :
                Returned(q) =>
                    SelectSeq(ChunkList, LAMBDA c : c.doc_path = q) = task[q].chunks

\* C6, witness: a task that raised was merged before a task that returned
\* chunks and per-page failures, and the run has ended.
C6_Witness ==
    /\ phase = "done"
    /\ \E i, j \in 1..Len(merge_order) :
          /\ i < j
          /\ Raised(merge_order[i]) /\ Returned(merge_order[j])
          /\ task[merge_order[j]].chunks # <<>>
          /\ task[merge_order[j]].skipped_pages # <<>>

\* C7: at the end of the run no chunk of the chunk list references a
\* document that has a whole-document failure record, also when the task
\* failed after some of its pages had been chunked.
C7_Theorem ==
    phase = "done" =>
        \A i \in 1..Len(RaisedOrder) :
            /\ DocFailures[i] = <<Name(RaisedOrder[i]), task[RaisedOrder[i]].err>>
            /\ ChunksOfDoc(RaisedOrder[i]) = {}

\* C7, witness: the run has ended and a task that had chunked a page
\* before it raised has its whole-document failure record.
C7_Witness ==
    /\ phase = "done"
    /\ \E i \in 1..Len(RaisedOrder) :
          /\ task[RaisedOrder[i]].chunks # <<>>
          /\ DocFailures[i] = <<Name(RaisedOrder[i]), "e_nlp">>

\* The text chunks of page n among the chunks of task t.
TextChunksOfPage(t, n) ==
    SelectSeq(t.chunks, LAMBDA c : c.elem_type = "text" /\ c.loc.page = n)

\* The pages of task t that reached the chunker with at least one sentence.
SentencePages(t) == {n \in 1..Len(t.sents) : t.sents[n] # <<>>}

\* C8: for a page of N >= 1 sentences the chunker emits one text chunk per
\* start index i in {0, 3, 6, ...} with i < N and no others, in increasing
\* i; the chunk for i holds sentences [i, min(i+5, N)) and records
\* start_sent = i+1 and end_sent = min(i+5, N); 7 sentences give the
\* ranges 1-5, 4-7, 7-7.
C8_Theorem ==
    \A p \in pdfs : \A n \in SentencePages(task[p]) :
        LET sents == task[p].sents[n]
            N  == Len(sents)
            tc == TextChunksOfPage(task[p], n)
        IN  /\ Len(tc) = Cardinality({i \in 0..(N - 1) : i % 3 = 0})
            /\ \A k \in 1..Len(tc) :
                  LET i == 3 * (k - 1)
                  IN  /\ i < N
                      /\ tc[k].loc.start_sent = i + 1
                      /\ tc[k].loc.end_sent = Min(i + 5, N)
                      /\ tc[k].text = SubSeq(sents, i + 1, Min(i + 5, N))
            /\ N = 7 =>
                  [k \in 1..Len(tc) |-> <<tc[k].loc.start_sent, tc[k].loc.end_sent>>]
                      = <<<<1, 5>>, <<4, 7>>, <<7, 7>>>>

\* C8, witness: a page of 7 sentences has been chunked into three windows.
C8_Witness ==
    \E p \in pdfs : \E n \in SentencePages(task[p]) :
        /\ Len(task[p].sents[n]) = 7
        /\ Len(TextChunksOfPage(task[p], n)) = 3

\* The windows tc[k..] concatenated, each without the sentences that the
\* windows before it (which reach sentence number covered) already hold.
RECURSIVE Reconstruct(_, _, _)
Reconstruct(tc, k, covered) ==
    IF k > Len(tc) THEN <<>>
    ELSE LET w == tc[k]
             shared == Min(Max(0, covered - w.loc.start_sent + 1), Len(w.text))
         IN  SubSeq(w.text, shared + 1, Len(w.text))
                 \o Reconstruct(tc, k + 1, Max(covered, w.loc.end_sent))

\* C9: for a page of N >= 1 sentences, the text chunk windows in emission
\* order, each non-first one without the prefix it shares with the windows
\* before it, concatenate to the page's sentence sequence exactly.
C9_Theorem ==
    \A p \in pdfs : \A n \in SentencePages(task[p]) :
        Reconstruct(TextChunksOfPage(task[p], n), 1, 0) = task[p].sents[n]

\* C9, witness: a page of 8 sentences has been chunked into windows of
\* which the last is shorter than its overlap with the one before.
C9_Witness ==
    \E p \in pdfs : \E n \in SentencePages(task[p]) :
        LET tc == TextChunksOfPage(task[p], n)
        IN  /\ Len(task[p].sents[n]) = 8
            /\ Len(tc) = 3
            /\ tc[3].text = <<7, 8>>

\* The records of a chunk list with the chunk_id field blanked.
ModuloChunkId(cs) == [i \in 1..Len(cs) |-> [cs[i] EXCEPT !.chunk_id = 0]]

\* C10, as stated: two successive runs of main over the same input
\* directory write chunk lists of the same length whose records are equal
\* position by position in every field other than chunk_id.
C10_Original ==
    Len(runs_out) >= 2 =>
        ModuloChunkId(runs_out[2]) = ModuloChunkId(runs_out[1])

\* ------------------------------------------------------------------
\* C11. No write conflicts across the tasks of one run: no two tasks write
\* the same path (repaired copy or image file), and no task writes a path
\* that another task was submitted to read.
C11_Original ==
    \A p \in DOMAIN task : \A q \in DOMAIN task \ {p} :
        /\ task[p].wrote \cap task[q].wrote = {}
        /\ <<"pdf", q>> \notin task[p].wrote

\* ------------------------------------------------------------------
\* The chunks of the chunk list that reference page n of document p, in
\* output order.
PageChunks(p, n) ==
    SelectSeq(ChunkList, LAMBDA c : c.doc_path = p /\ c.loc.page = n)

IsTableChunk(c) == "table_no" \in DOMAIN c

\* The tables the libraries recover on page n of p, in recovery order, on
\* the path the page took.
RecoveredTables(p, n) ==
    LET pg == Kind(p).pages[n]
        h == task[p].hist[n]
    IN  IF ~caps.HAS_TABLES THEN <<>>
        ELSE IF h = <<"PrimaryAttempt", "Done">>
        THEN (IF pg.cam = "ok" THEN pg.tabs ELSE <<>>)
        ELSE IF h = <<"PrimaryAttempt", "FallbackAttempt", "Done">>
        THEN pg.fbtabs
        ELSE <<>>

\* C12. In the chunk list, for every page of a document whose task
\* returned: the page's text chunks all precede its table chunks, every
\* table chunk has elem_type "table", there is one table chunk per recovered
\* table, the k-th of them holds the k-th recovered table, and table_no
\* strictly increases along them.
C12_Theorem ==
    phase = "done" =>
        \A p \in pdfs : Returned(p) =>
            \A n \in 1..PageCount(p) :
                LET cs == PageChunks(p, n)
                    tb == SelectSeq(cs, IsTableChunk)
                    rec == RecoveredTables(p, n)
                IN  /\ \A i \in 1..Len(cs) : \A j \in (i + 1)..Len(cs) :
                           IsTableChunk(cs[i]) => IsTableChunk(cs[j])
                    /\ \A i \in 1..Len(cs) :
                           IsTableChunk(cs[i]) <=> cs[i].elem_type = "table"
                    /\ Len(tb) = Len(rec)
                    /\ \A k \in 1..Len(tb) : tb[k].text = rec[k]
                    /\ \A k \in 1..(Len(tb) - 1) :
                           tb[k].table_no < tb[k + 1].table_no

\* A page of the chunk list with a text chunk and two table chunks.
C12_Witness ==
    /\ phase = "done"
    /\ \E p \in pdfs : Returned(p) /\ \E n \in 1..PageCount(p) :
           LET cs == PageChunks(p, n)
           IN  /\ Len(RecoveredTables(p, n)) = 2
               /\ Len(cs) = 3
               /\ ~IsTableChunk(cs[1])
               /\ IsTableChunk(cs[3])

\* ------------------------------------------------------------------
\* Table recovery was attempted on page n of p and raised: camelot.read_pdf
\* on the primary path, pg.extract_tables() on the fallback path.
TableRecoveryRaised(p, n) ==
    LET pg == Kind(p).pages[n]
        h == task[p].hist[n]
    IN  /\ caps.HAS_TABLES
        /\ \/ /\ pg.prim = "ok"
              /\ ~(caps.HAS_OCR /\ OcrFails(pg.imgs))
              /\ pg.cam = "raises"
           \/ /\ Len(h) >= 3
              /\ h[2] = "FallbackAttempt"
              /\ pg.fb = "ok"
              /\ pg.fbtab = "raises"

\* C13, as stated: on the primary path and on the fallback path alike, a
\* failure while recovering tables is swallowed: the page still ends in
\* Done and no per-page failure record is produced for it.
C13_Original ==
    \A p \in DOMAIN task : \A n \in 1..Len(task[p].hist) :
        TableRecoveryRaised(p, n) =>
            /\ task[p].hist[n][Len(task[p].hist[n])] # "Skipped"
            /\ \A i \in 1..Len(task[p].skipped_pages) :
                   task[p].skipped_pages[i][2] # n

\* ------------------------------------------------------------------
\* The try block of page n of p raises: native extraction, or the OCR
\* overlay inside the same try.
TryBlockRaises(p, n) ==
    LET pg == Kind(p).pages[n]
    IN  pg.prim = "raises" \/ (caps.HAS_OCR /\ OcrFails(pg.imgs))

Terminal(h) == h[Len(h)] \in {"Done", "Skipped"}

\* The document of p was opened (the repaired copy or the original).
Opened(p) == task[p].doc # "none"

\* Every page that was begun starts in PrimaryAttempt and went only
\* PrimaryAttempt->Done, PrimaryAttempt->FallbackAttempt->Done|Skipped, or
\* PrimaryAttempt->Skipped; FallbackAttempt only after the try block raised
\* and only with HAS_PLUMBER; without it a raise leads directly to Skipped.
PageTransitions ==
    \A p \in DOMAIN task :
        LET t == task[p]
        IN  /\ t.hist # <<>> => Opened(p)
            /\ Len(t.hist) <= PageCount(p)
            /\ \A n \in 1..Len(t.hist) :
                   LET h == t.hist[n]
                   IN  /\ h \in {<<"PrimaryAttempt", "Done">>,
                                 <<"PrimaryAttempt", "FallbackAttempt">>,
                                 <<"PrimaryAttempt", "FallbackAttempt", "Done">>,
                                 <<"PrimaryAttempt", "FallbackAttempt", "Skipped">>,
                                 <<"PrimaryAttempt", "Skipped">>}
                       /\ h[2] = "FallbackAttempt" =>
                              caps.HAS_PLUMBER /\ TryBlockRaises(p, n)
                       /\ h[2] = "Skipped" =>
                              ~caps.HAS_PLUMBER /\ TryBlockRaises(p, n)
                       /\ h[2] = "Done" => ~TryBlockRaises(p, n)
                       /\ ~Terminal(h) => n = Len(t.hist) /\ t.st = "fallback"

TerminalStays ==
    \A p \in DOMAIN task : \A n \in 1..Len(task[p].hist) :
        /\ p \in DOMAIN task'
        /\ n <= Len(task'[p].hist)
        /\ LET h == task[p].hist[n]
               g == task'[p].hist[n]
           IN  /\ Len(h) <= Len(g)
               /\ SubSeq(g, 1, Len(h)) = h
               /\ Terminal(h) => g = h

RepairFailed(p) == ~(caps.HAS_REPAIR /\ Kind(p).repair = "ok")

\* C15, as stated: a failure of the repair stage is non-fatal and leaves
\* no record by itself: the document is then opened from the original, and
\* its task raises the open error only if the original does not open; when
\* repair succeeds, every page read of the task is made on the repaired
\* copy.
C15_Original ==
    \A p \in DOMAIN task :
        LET t == task[p]
        IN  /\ RepairFailed(p) /\ t.st \notin {"queued", "open"} =>
                   /\ Read("fitz", p, 0) \in t.read
                   /\ Kind(p).opens => t.doc = "orig" /\ t.err # "e_open"
                   /\ ~Kind(p).opens => Raised(p) /\ t.err = "e_open"
            /\ t.doc = "fixed" =>
                   \A r \in t.read : r.page >= 1 => r.path = Fixed(p)

\* ------------------------------------------------------------------
\* The raw text of page n of p, on the path the page took to Done.
RawText(p, n) ==
    LET pg == Kind(p).pages[n]
    IN  IF task[p].hist[n] = <<"PrimaryAttempt", "Done">>
        THEN pg.text \o (IF caps.HAS_OCR THEN OcrText(pg.imgs) ELSE <<>>)
        ELSE pg.fbtext \o (IF caps.HAS_OCR THEN OcrText(pg.fbimgs) ELSE <<>>)

\* Page n of p is Done and its text has no sentence.
DoneWithoutSentences(p, n) ==
    /\ task[p].hist[n][Len(task[p].hist[n])] = "Done"
    /\ Sentences(RawText(p, n)) = <<>>

\* C16. In the chunk list, a Done page whose text segments into no sentence
\* has exactly one text chunk: it comes first, its text is the raw page
\* text, its loc has the page number and no other field; the page's table
\* chunks, one per recovered table, follow it.
C16_Theorem ==
    phase = "done" =>
        \A p \in pdfs : Returned(p) =>
            \A n \in 1..PageCount(p) : DoneWithoutSentences(p, n) =>
                LET cs == PageChunks(p, n)
                IN  /\ Len(cs) = 1 + Len(RecoveredTables(p, n))
                    /\ cs[1].elem_type = "text"
                    /\ cs[1].text = RawText(p, n)
                    /\ DOMAIN cs[1].loc = {"page"}
                    /\ cs[1].loc.page = n
                    /\ \A k \in 2..Len(cs) : cs[k].elem_type = "table"

\* A written page of whitespace-only text with a recovered table: one text
\* chunk, then the table chunk.
C16_Witness ==
    /\ phase = "done"
    /\ \E p \in pdfs : Returned(p) /\ \E n \in 1..PageCount(p) :
           /\ DoneWithoutSentences(p, n)
           /\ RawText(p, n) # <<>>
           /\ Len(PageChunks(p, n)) = 2
           /\ PageChunks(p, n)[2].elem_type = "table"

\* ------------------------------------------------------------------
\* C17, as stated: every chunk carries only chunk_id, source, doc_path,
\* loc, elem_type and text; loc holds the 1-based page number, plus the
\* sentence range (text chunk of a non-empty sentence sequence) or, for a
\* table chunk, the table's index as table_no.
C17_Original ==
    \A p \in DOMAIN task : \A i \in 1..Len(task[p].chunks) :
        LET c == task[p].chunks[i]
        IN  /\ DOMAIN c = {"chunk_id", "source", "doc_path", "loc",
                           "elem_type", "text"}
            /\ c.loc.page >= 1
            /\ c.elem_type = "text" =>
                   DOMAIN c.loc \in {{"page"}, {"page", "start_sent", "end_sent"}}
            /\ c.elem_type = "table" => DOMAIN c.loc = {"page", "table_no"}

\* ------------------------------------------------------------------
\* A step merges one task result: one path is appended to merge_order and
\* no task moves.
OneMerge ==
    merge_order' # merge_order /\ phase = "pool" =>
        /\ \E p \in pdfs \ Range(merge_order) : merge_order' = Append(merge_order, p)
        /\ task' = task

\* A step of a worker leaves the accumulators of main alone.
WorkersLeaveAccumulators ==
    task' # task /\ phase = "pool" =>
        UNCHANGED <<all_chunks, all_skipped_pages, skipped_pdfs, merge_order>>

\* C18. The tasks are merged in completion order, one at a time: a merged
\* task has completed and its chunks and per-page failures are in the
\* accumulators only from its merge on; no step of a worker changes the
\* accumulators; and any completed task that is not merged yet can be
\* merged next, whatever was submitted before it.
C18_Theorem ==
    /\ [](phase = "pool" =>
            /\ \A i \in 1..Len(merge_order) :
                   task[merge_order[i]].st \in {"returned", "raised"}
            /\ \A p \in pdfs \ Range(merge_order) :
                   /\ \A i \in 1..Len(all_chunks) : all_chunks[i].doc_path # p
                   /\ task[p].st \in {"returned", "raised"} => ENABLED Merge(p)
            /\ Len(all_skipped_pages) =
                   Len(Flatten([i \in 1..Len(merge_order) |->
                           IF Returned(merge_order[i])
                           THEN task[merge_order[i]].skipped_pages ELSE <<>>])))
    /\ [][OneMerge /\ WorkersLeaveAccumulators]_vars

\* The task submitted second completed and was merged, with its chunks in
\* the accumulator, while the task submitted first is still running.
C18_Witness ==
    /\ phase = "pool"
    /\ \E p, q \in pdfs :
           /\ SubmittedBefore(q, p)
           /\ merge_order = <<p>>
           /\ q \in Running
           /\ all_chunks # <<>>

\* ------------------------------------------------------------------
\* The chunks of the chunk list that reference document p, in output order.
DocChunks(p) == SelectSeq(ChunkList, LAMBDA c : c.doc_path = p)

\* The place of a chunk within its page: text chunks by window start (the
\* one chunk of a page without sentences first), then table chunks by
\* table index.
PlaceInPage(c) ==
    IF c.elem_type = "table" THEN <<1, c.table_no>>
    ELSE IF "start_sent" \in DOMAIN c.loc THEN <<0, c.loc.start_sent>>
    ELSE <<0, 0>>

ComesBefore(c, d) ==
    \/ c.loc.page < d.loc.page
    \/ /\ c.loc.page = d.loc.page
       /\ \/ PlaceInPage(c)[1] < PlaceInPage(d)[1]
          \/ /\ PlaceInPage(c)[1] = PlaceInPage(d)[1]
             /\ PlaceInPage(c)[2] < PlaceInPage(d)[2]

\* C19. In the chunk list the chunks of one document are exactly what its
\* task returned and are strictly ordered by page number, then text before
\* table, then window start or table index: their order is fixed by their
\* content, whatever the interleaving of the tasks and the merge order.
C19_Theorem ==
    phase = "done" =>
        \A p \in pdfs :
            LET cs == DocChunks(p)
            IN  /\ cs = IF Returned(p) THEN task[p].chunks ELSE <<>>
                /\ \A i \in 1..(Len(cs) - 1) : ComesBefore(cs[i], cs[i + 1])

\* A written document with chunks on two pages, a page with two text
\* windows and a page with two table chunks.
C19_Witness ==
    /\ phase = "done"
    /\ \E p \in pdfs :
           LET cs == DocChunks(p)
           IN  /\ \E i, j \in 1..Len(cs) : cs[i].loc.page < cs[j].loc.page
               /\ \E i \in 1..Len(cs) :
                      "start_sent" \in DOMAIN cs[i].loc /\ cs[i].loc.start_sent > 1
               /\ \E i \in 1..Len(cs) :
                      cs[i].elem_type = "table" /\ cs[i].table_no > 0

\* ------------------------------------------------------------------
\* The number of times path p was yielded by as_completed.
TimesMerged(p) == Cardinality({i \in 1..Len(merge_order) : merge_order[i] = p})

\* The whole-document failure records written under the file name of p,
\* and the discovered paths of that file name whose task raised.
RecordsNamed(p) == {i \in 1..Len(DocFailures) : DocFailures[i][1] = Name(p)}
RaisedNamed(p) == {q \in pdfs : Raised(q) /\ Name(q) = Name(p)}

\* C20. At the end of the run every discovered path has one task, consumed
\* once; it has either one whole-document failure record and nothing in
\* the chunk list, or no such record and its task result in the lists
\* once; the number of whole-document failure records plus the number of
\* merged task results is the number of discovered paths.
C20_Theorem ==
    phase = "done" =>
        /\ DOMAIN task = pdfs
        /\ \A p \in pdfs :
               /\ TimesMerged(p) = 1
               /\ Raised(p) \/ Returned(p)
               /\ Cardinality(RecordsNamed(p)) = Cardinality(RaisedNamed(p))
               /\ Raised(p) => DocChunks(p) = <<>>
               /\ Returned(p) => DocChunks(p) = task[p].chunks
        /\ Len(PageFailures) =
               Len(Flatten([i \in 1..Len(ReturnedOrder) |->
                               task[ReturnedOrder[i]].skipped_pages]))
        /\ Len(DocFailures) = Cardinality({p \in pdfs : Raised(p)})
        /\ Len(DocFailures) + Len(ReturnedOrder) = Cardinality(pdfs)

\* The run has ended with one document recorded as a whole-document
\* failure and another whose task result was merged.
C20_Witness ==
    /\ phase = "done"
    /\ Cardinality(pdfs) >= 2
    /\ Len(DocFailures) >= 1
    /\ \E p \in pdfs : Returned(p) /\ DocChunks(p) # <<>>

\* ------------------------------------------------------------------
\* The per-page failure records of a list that carry the file name of p.
PageRecordsNamed(list, p) == SelectSeq(list, LAMBDA r : r[1] = Name(p))

\* No other discovered path has the file name of p.
NameIsOwn(p) == \A q \in pdfs \ {p} : Name(q) # Name(p)

\* C21. A document's contribution is all-or-nothing: a task returns only
\* after its last page, and at the end of the run a task that raised has
\* no chunk in the chunk list and none of its per-page failure records in
\* the per-page failure list (the records under its file name are those of
\* the returned tasks of that name); so a document whose file name is its
\* own is never in both the whole-document and the per-page failure list.
C21_Theorem ==
    /\ \A p \in DOMAIN task :
           Returned(p) => task[p].page_no = PageCount(p)
    /\ phase = "done" =>
           \A p \in pdfs :
               /\ Raised(p) =>
                      /\ \A i \in 1..Len(ChunkList) : ChunkList[i].doc_path # p
                      /\ PageRecordsNamed(PageFailures, p)
                             = PageRecordsNamed(PageFailuresHandedOver, p)
                      /\ NameIsOwn(p) => PageRecordsNamed(PageFailures, p) = <<>>
               /\ NameIsOwn(p) =>
                      ~(/\ RecordsNamed(p) # {}
                        /\ PageRecordsNamed(PageFailures, p) # <<>>)

\* The run has ended and a task that had recorded a skipped page raised on
\* a later page.
C21_Witness ==
    /\ phase = "done"
    /\ \E p \in pdfs :
           /\ Raised(p)
           /\ task[p].skipped_pages # <<>>
           /\ RecordsNamed(p) # {}

\* ------------------------------------------------------------------
\* The per-page failure records each merged task handed over, by merge
\* position (nothing for a task that raised).
RecordBlocks ==
    [i \in 1..Len(merge_order) |->
        IF Returned(merge_order[i]) THEN task[merge_order[i]].skipped_pages
        ELSE <<>>]

\* The number of records in the blocks before block i.
Offset(blocks, i) == Len(Flatten(SubSeq(blocks, 1, i - 1)))

=============================================================================
